---- MODULE Spec2Model ----
(***************************************************************************)
(* A model of the rust_book examples: the single-slot memoizing Cacher     *)
(* (src/src/closures.rs) and the thread, channel and mutex examples        *)
(* (src/src/concurrency.rs).  Each example is a function run by one        *)
(* invoking thread (thread 0) that spawns workers (threads 1, 2, ...).     *)
(* One step of a thread is one statement of its body.                      *)
(***************************************************************************)
EXTENDS Integers, Sequences, FiniteSets, TLC

VARIABLES
    op,           \* the example function being run
    mpc,          \* position of the invoking thread in the function body
    mi,           \* loop variable of the invoking thread
    wpc,          \* wpc[w]: position of worker w in its closure body
    wi,           \* wi[w]: loop variable of worker w
    out,          \* the lines printed so far, in order
    err,          \* the panic message of the invoking thread, "" if none
    txs,          \* the live Sender handles, each with its name and owner
    queue,        \* the values sent and not yet received
    rxAlive,      \* whether the Receiver has not been dropped
    num,          \* the integer inside the Mutex
    holders,      \* the threads holding a MutexGuard
    reg,          \* reg[w]: the value worker w read for `*num += 1`
    handles,      \* the JoinHandles pushed and not yet joined
    strong,       \* the strong count of the Arc
    poisoned,     \* whether the Mutex is poisoned
    faults,       \* the abnormal terminations of incrementers so far
    calculation,  \* Cacher.calculation
    value,        \* Cacher.value: <<>> is None, <<v>> is Some(v)
    hist,         \* the calls of Cacher::value made so far: [arg, ret]
    invocations   \* the invocations of calculation: [call, arg]

vars == <<op, mpc, mi, wpc, wi, out, err, txs, queue, rxAlive, num, holders,
          reg, handles, strong, poisoned, faults, calculation, value, hist,
          invocations>>

chanVars == <<txs, queue, rxAlive>>
mutexVars == <<num, holders, reg, handles, strong, poisoned, faults>>
cacherVars == <<calculation, value, hist, invocations>>

(***************************************************************************)
(* Program constants.                                                      *)
(***************************************************************************)
\* for i in 1..10 of the spawned thread
WorkerLoopFrom == 1
WorkerLoopTo == 10
\* for i in 1..5 of the main thread
MainLoopFrom == 1
MainLoopTo == 5
\* for _ in 0..10 of shared_mutex_thread_example
N == 10
\* Mutex::new(0)
InitialCount == 0

\* the vec![1, 2, 3] moved into the worker of move_thread_example
MovedVec == <<1, 2, 3>>

\* the value sent by message_passing_example
OneVals == <<"hi">>
\* the values sent by message_passing_example_two and by the first producer
\* of multi_message_sending_example
FirstVals == <<"hi", "from", "the", "thread">>
\* the values sent by the second producer of multi_message_sending_example
SecondVals == <<"more", "messages", "for", "you">>

(***************************************************************************)
(* Bounds of the Cacher's client.                                          *)
(***************************************************************************)
MaxArg == 2
MaxCalls == 3

(***************************************************************************)
(* Bound of the failures of incrementers in one run.                       *)
(***************************************************************************)
MaxFaults == 1

Args == 0..MaxArg

ThreadOps == {"thread_example_one", "thread_example_two", "move_thread_example"}
MsgOps == {"message_passing_example", "message_passing_example_two",
           "multi_message_sending_example"}

NWorkers(o) ==
    CASE o \in ThreadOps -> 1
      [] o = "multi_message_sending_example" -> 2
      [] o \in MsgOps -> 1
      [] o = "shared_mutex_thread_example" -> N
      [] OTHER -> 0

Workers == 1..NWorkers(op)

\* What each worker sends.
Vals(o, w) ==
    CASE o = "message_passing_example" -> OneVals
      [] o = "message_passing_example_two" -> FirstVals
      [] o = "multi_message_sending_example" /\ w = 1 -> FirstVals
      [] o = "multi_message_sending_example" /\ w = 2 -> SecondVals
      [] OTHER -> <<>>

(***************************************************************************)
(* Values of the variables an example does not use.                        *)
(***************************************************************************)
NoChan == txs = {} /\ queue = <<>> /\ rxAlive = FALSE
NoMutex ==
    /\ num = InitialCount /\ holders = {} /\ handles = <<>> /\ strong = 0
    /\ poisoned = FALSE /\ faults = 0
NoCacher ==
    /\ calculation = [a \in Args |-> a]
    /\ value = <<>> /\ hist = <<>> /\ invocations = <<>>

(***************************************************************************)
(* std::thread: join returns once the thread's closure has returned or     *)
(* panicked.                                                               *)
(***************************************************************************)
\* join that does not wait, and join that waits only for the spawn
JoinReadyNoWait(w) == TRUE
JoinReadySpawned(w) == wpc[w] # "unspawned"

JoinReady(w) == wpc[w] \in {"done", "panicked"}

\* handle.join().unwrap(): the position after the join, or the panic that
\* unwrap raises on the Err of a panicked thread.
\* `let _ = handle.join();`: the Err of a panicked thread is ignored
AfterJoinIgnoringErr(w, next) == next

AfterJoin(w, next) == IF wpc[w] = "panicked" THEN "panicked" ELSE next
JoinErr(w) == IF wpc[w] = "panicked" THEN "JoinError" ELSE err

(***************************************************************************)
(* thread_example_one, thread_example_two, move_thread_example             *)
(***************************************************************************)
InitThread ==
    /\ op \in ThreadOps
    /\ mpc = "spawn"
    /\ mi = MainLoopFrom
    /\ wpc = [w \in 1..1 |-> "unspawned"]
    /\ wi = [w \in 1..1 |-> WorkerLoopFrom]
    /\ reg = [w \in 1..1 |-> 0]
    /\ out = <<>>
    /\ err = ""
    /\ NoChan /\ NoMutex /\ NoCacher

\* the join placed right after the spawn in every example
ThreadSpawnJoinFirst ==
    /\ op \in ThreadOps
    /\ mpc = "spawn"
    /\ wpc' = [wpc EXCEPT ![1] = "run"]
    /\ mpc' = "join"
    /\ UNCHANGED <<op, mi, wi, out, err>>
    /\ UNCHANGED <<chanVars, mutexVars, cacherVars>>

\* let handle = thread::spawn(...)
ThreadSpawn ==
    /\ op \in ThreadOps
    /\ mpc = "spawn"
    /\ wpc' = [wpc EXCEPT ![1] = "run"]
    /\ mpc' = IF op = "thread_example_one" THEN "loop" ELSE "join"
    /\ UNCHANGED <<op, mi, wi, out, err>>
    /\ UNCHANGED <<chanVars, mutexVars, cacherVars>>

\* one iteration of the spawned thread's loop: println!, sleep
ThreadWorkerStep ==
    /\ op \in {"thread_example_one", "thread_example_two"}
    /\ wpc[1] = "run"
    /\ wi[1] < WorkerLoopTo
    /\ out' = Append(out, <<"spawned", wi[1]>>)
    /\ wi' = [wi EXCEPT ![1] = wi[1] + 1]
    /\ UNCHANGED <<op, mpc, mi, wpc, err>>
    /\ UNCHANGED <<chanVars, mutexVars, cacherVars>>

\* the spawned thread's loop is over: the closure returns
ThreadWorkerFinish ==
    /\ op \in {"thread_example_one", "thread_example_two"}
    /\ wpc[1] = "run"
    /\ wi[1] = WorkerLoopTo
    /\ wpc' = [wpc EXCEPT ![1] = "done"]
    /\ UNCHANGED <<op, mpc, mi, wi, out, err>>
    /\ UNCHANGED <<chanVars, mutexVars, cacherVars>>

\* the closure of move_thread_example: println! of the moved vector
MoveWorkerPrint ==
    /\ op = "move_thread_example"
    /\ wpc[1] = "run"
    /\ out' = Append(out, <<"vector", MovedVec>>)
    /\ wpc' = [wpc EXCEPT ![1] = "done"]
    /\ UNCHANGED <<op, mpc, mi, wi, err>>
    /\ UNCHANGED <<chanVars, mutexVars, cacherVars>>

\* one iteration of the main thread's loop, or its end
ThreadMainStep ==
    /\ op \in {"thread_example_one", "thread_example_two"}
    /\ mpc = "loop"
    /\ mi < MainLoopTo
    /\ out' = Append(out, <<"main", mi>>)
    /\ mi' = mi + 1
    /\ UNCHANGED <<op, mpc, wpc, wi, err>>
    /\ UNCHANGED <<chanVars, mutexVars, cacherVars>>

ThreadMainLoopEnd ==
    /\ op \in {"thread_example_one", "thread_example_two"}
    /\ mpc = "loop"
    /\ mi = MainLoopTo
    /\ mpc' = IF op = "thread_example_one" THEN "join" ELSE "done"
    /\ UNCHANGED <<op, mi, wpc, wi, out, err>>
    /\ UNCHANGED <<chanVars, mutexVars, cacherVars>>

\* handle.join().unwrap()
ThreadJoin ==
    /\ op \in ThreadOps
    /\ mpc = "join"
    /\ JoinReady(1)
    /\ mpc' = AfterJoin(1, IF op = "thread_example_two" THEN "loop" ELSE "done")
    /\ err' = JoinErr(1)
    /\ UNCHANGED <<op, mi, wpc, wi, out>>
    /\ UNCHANGED <<chanVars, mutexVars, cacherVars>>

NextThread ==
    \/ ThreadSpawn
    \/ ThreadWorkerStep
    \/ ThreadWorkerFinish
    \/ MoveWorkerPrint
    \/ ThreadMainStep
    \/ ThreadMainLoopEnd
    \/ ThreadJoin

SpecThread == InitThread /\ [][NextThread]_vars

\* The spawned closure terminates abnormally before it is over: println!
\* panics when the write to stdout fails.
ThreadPanic ==
    /\ op \in ThreadOps
    /\ wpc[1] = "run"
    /\ wpc' = [wpc EXCEPT ![1] = "panicked"]
    /\ UNCHANGED <<op, mpc, mi, wi, out, err>>
    /\ UNCHANGED <<chanVars, mutexVars, cacherVars>>

\* The fire-and-join examples with a worker that may fail.
NextThreadFail ==
    \/ NextThread
    \/ ThreadPanic

SpecThreadFail == InitThread /\ [][NextThreadFail]_vars

(***************************************************************************)
(* std::sync::mpsc: an unbounded FIFO queue with cloneable Senders and one *)
(* Receiver.                                                               *)
(***************************************************************************)
\* The Sender handles thread t owns.
Owned(t) == {h \in txs : h.owner = t}

\* Moving the handle named n into the closure of worker w (move ||).
MoveTx(n, w) ==
    {h \in txs : h.name # n} \cup
    {[name |-> h.name, owner |-> w] : h \in {g \in txs : g.name = n}}

\* spawn without `move` of the handle: the invoking thread keeps it and the
\* worker gets a clone.
CloneTxInto(n, w) == txs \cup {[name |-> n \o "'", owner |-> w]}

\* What thread::spawn(move || ...) does to the handles: worker w captures
\* the handle named n.
Capture(n, w) == MoveTx(n, w)

\* Sender::send: Ok when the Receiver is alive, Err otherwise.
SendOk == rxAlive

\* `rx.try_recv()` written for `rx.recv()`: an empty queue is an error
RecvNoBlock(q, senders) == IF q # <<>> THEN "value" ELSE "closed"

\* a recv that does not notice that every Sender is gone
RecvBlocksWhenClosed(q, senders) == IF q # <<>> THEN "value" ELSE "block"
\* Receiver::recv: the head of the queue if there is one; otherwise Err
\* (disconnected) if no Sender is left; otherwise it blocks.
Recv(q, senders) ==
    IF q # <<>> THEN "value"
    ELSE IF senders = {} THEN "closed"
    ELSE "block"

\* a queue that is a stack
PushFront(q, v) == <<v>> \o q

\* The queue after send(v).
Push(q, v) == Append(q, v)

\* a recv that takes the newest value
FrontLast(q) == q[Len(q)]

\* The value a successful recv returns, and the queue after it.
Front(q) == Head(q)
Pop(q) == Tail(q)

(***************************************************************************)
(* message_passing_example, message_passing_example_two,                   *)
(* multi_message_sending_example                                           *)
(***************************************************************************)
\* the state after `let (tx, rx) = mpsc::channel();`
InitMsg ==
    /\ op \in MsgOps
    /\ mpc = IF op = "multi_message_sending_example" THEN "clone" ELSE "spawn"
    /\ mi = 1
    /\ wpc = [w \in Workers |-> "unspawned"]
    /\ wi = [w \in Workers |-> 1]
    /\ reg = [w \in Workers |-> 0]
    /\ out = <<>>
    /\ err = ""
    /\ txs = {[name |-> "tx", owner |-> 0]}
    /\ queue = <<>>
    /\ rxAlive = TRUE
    /\ NoMutex /\ NoCacher

\* let tx1 = mpsc::Sender::clone(&tx);
MsgClone ==
    /\ op = "multi_message_sending_example"
    /\ mpc = "clone"
    /\ txs' = txs \cup {[name |-> "tx1", owner |-> 0]}
    /\ mpc' = "spawn"
    /\ UNCHANGED <<op, mi, wpc, wi, out, err, queue, rxAlive>>
    /\ UNCHANGED <<mutexVars, cacherVars>>

\* The handle the mi-th spawned closure captures.
Captured(o, k) ==
    IF o = "multi_message_sending_example" /\ k = 1 THEN "tx1" ELSE "tx"

\* What the invoking thread does after its spawns.
Receiving(o) == IF o = "message_passing_example" THEN "recv" ELSE "iter"

\* thread::spawn(move || { ... }) of the mi-th producer
MsgSpawn ==
    /\ op \in MsgOps
    /\ mpc = "spawn"
    /\ mi <= NWorkers(op)
    /\ wpc' = [wpc EXCEPT ![mi] = "run"]
    /\ txs' = Capture(Captured(op, mi), mi)
    /\ mi' = mi + 1
    /\ mpc' = IF mi = NWorkers(op) THEN Receiving(op) ELSE "spawn"
    /\ UNCHANGED <<op, wi, out, err, queue, rxAlive>>
    /\ UNCHANGED <<mutexVars, cacherVars>>

\* tx.send(val).unwrap() (and the sleep after it) of producer w
MsgSend(w) ==
    /\ op \in MsgOps
    /\ w \in Workers
    /\ wpc[w] = "run"
    /\ wi[w] <= Len(Vals(op, w))
    /\ IF SendOk
         THEN /\ queue' = Push(queue, Vals(op, w)[wi[w]])
              /\ wi' = [wi EXCEPT ![w] = wi[w] + 1]
              /\ UNCHANGED <<wpc, txs>>
         ELSE \* unwrap panics on the SendError; unwinding drops the Sender
              /\ wpc' = [wpc EXCEPT ![w] = "panicked"]
              /\ txs' = txs \ Owned(w)
              /\ UNCHANGED <<queue, wi>>
    /\ UNCHANGED <<op, mpc, mi, out, err, rxAlive>>
    /\ UNCHANGED <<mutexVars, cacherVars>>

\* the closure of producer w returns: its Sender is dropped
MsgFinish(w) ==
    /\ op \in MsgOps
    /\ w \in Workers
    /\ wpc[w] = "run"
    /\ wi[w] > Len(Vals(op, w))
    /\ wpc' = [wpc EXCEPT ![w] = "done"]
    /\ txs' = txs \ Owned(w)
    /\ UNCHANGED <<op, mpc, mi, wi, out, err, queue, rxAlive>>
    /\ UNCHANGED <<mutexVars, cacherVars>>

\* let received = rx.recv().unwrap(); println!("Got: {}", received);
\* and the return of message_passing_example, which drops rx
MsgRecv ==
    /\ op = "message_passing_example"
    /\ mpc = "recv"
    /\ Recv(queue, txs) # "block"
    /\ IF Recv(queue, txs) = "value"
         THEN /\ out' = Append(out, <<"Got", Front(queue)>>)
              /\ queue' = Pop(queue)
              /\ mpc' = "done"
              /\ err' = err
         ELSE \* unwrap panics on the RecvError
              /\ mpc' = "panicked"
              /\ err' = "RecvError"
              /\ UNCHANGED <<out, queue>>
    /\ rxAlive' = FALSE
    /\ UNCHANGED <<op, mi, wpc, wi, txs>>
    /\ UNCHANGED <<mutexVars, cacherVars>>

\* one turn of `for received in rx { println!("Got: {}", received); }`:
\* the iterator yields the next value, or ends when recv fails
MsgIterNext ==
    /\ op \in {"message_passing_example_two", "multi_message_sending_example"}
    /\ mpc = "iter"
    /\ Recv(queue, txs) # "block"
    /\ IF Recv(queue, txs) = "value"
         THEN /\ out' = Append(out, <<"Got", Front(queue)>>)
              /\ queue' = Pop(queue)
              /\ UNCHANGED <<mpc, rxAlive>>
         ELSE \* None: the loop ends, the function returns, rx is dropped
              /\ mpc' = "done"
              /\ rxAlive' = FALSE
              /\ UNCHANGED <<out, queue>>
    /\ UNCHANGED <<op, mi, wpc, wi, err, txs>>
    /\ UNCHANGED <<mutexVars, cacherVars>>

\* a Sender that unwinding does not drop
LeakedBy(w) == txs

\* The live Senders after unwinding has dropped what worker w captured.
DroppedBy(w) == txs \ Owned(w)

\* A producer's closure terminates abnormally (it panics) while it still
\* has a value to send: unwinding drops the Sender it captured.
MsgPanic(w) ==
    /\ op \in MsgOps
    /\ w \in Workers
    /\ wpc[w] = "run"
    /\ wi[w] <= Len(Vals(op, w))
    /\ wpc' = [wpc EXCEPT ![w] = "panicked"]
    /\ txs' = DroppedBy(w)
    /\ UNCHANGED <<op, mpc, mi, wi, out, err, queue, rxAlive>>
    /\ UNCHANGED <<mutexVars, cacherVars>>

NextMsg ==
    \/ MsgClone
    \/ MsgSpawn
    \/ \E w \in Workers : MsgSend(w)
    \/ \E w \in Workers : MsgFinish(w)
    \/ MsgRecv
    \/ MsgIterNext

SpecMsg == InitMsg /\ [][NextMsg]_vars

\* The scheduler runs every thread that can take a step.
FairMsg ==
    /\ WF_vars(MsgClone \/ MsgSpawn \/ MsgRecv \/ MsgIterNext)
    /\ \A w \in 1..2 : WF_vars(MsgSend(w) \/ MsgFinish(w))

FairSpecMsg == SpecMsg /\ FairMsg

\* The messaging examples with producers that may fail.
NextMsgFail ==
    \/ NextMsg
    \/ \E w \in Workers : MsgPanic(w)

SpecMsgFail == InitMsg /\ [][NextMsgFail]_vars

\* The same under fair scheduling of the threads; a failure is not owed.
FairSpecMsgFail == SpecMsgFail /\ FairMsg


(***************************************************************************)
(* std::sync::Mutex: lock blocks while another thread holds the guard; a   *)
(* guard dropped by a panicking thread poisons the mutex, and lock on a    *)
(* poisoned mutex returns Err, on which unwrap panics.                     *)
(***************************************************************************)
\* a lock that never blocks
NoLock == TRUE

LockFree == holders = {}

\* `counter.lock().unwrap_or_else(|e| e.into_inner())`: poison is ignored
LockIgnoresPoison == "ok"

\* The Result of lock().
LockResult == IF poisoned THEN "poisoned" ELSE "ok"

\* `mem::forget(num)`: the guard is never dropped
Leaked(t) == holders

\* The holders after thread t has dropped its guard (if it has one).
Released(t) == holders \ {t}

\* `*num = 1` written for `*num += 1`
SetToOne(r) == 1
\* `*num += 2` written for `*num += 1`
AddTwo(r) == r + 2

\* `*num += 1`: the value written back for the value read.
Incremented(r) == r + 1

(***************************************************************************)
(* shared_mutex_thread_example                                             *)
(***************************************************************************)
\* the state after `let counter = Arc::new(Mutex::new(0));`
\* and `let mut handles = vec![];`
InitShared ==
    /\ op = "shared_mutex_thread_example"
    /\ mpc = "spawn"
    /\ mi = 0
    /\ wpc = [w \in Workers |-> "unspawned"]
    /\ wi = [w \in Workers |-> 0]
    /\ reg = [w \in Workers |-> 0]
    /\ out = <<>>
    /\ err = ""
    /\ num = InitialCount
    /\ holders = {}
    /\ poisoned = FALSE
    /\ faults = 0
    /\ handles = <<>>
    /\ strong = 1
    /\ NoChan /\ NoCacher

\* one iteration of `for _ in 0..10`: Arc::clone, thread::spawn,
\* handles.push
SharedSpawn ==
    /\ op = "shared_mutex_thread_example"
    /\ mpc = "spawn"
    /\ mi < N
    /\ strong' = strong + 1
    /\ wpc' = [wpc EXCEPT ![mi + 1] = "lock"]
    /\ handles' = Append(handles, mi + 1)
    /\ mi' = mi + 1
    /\ mpc' = IF mi + 1 = N THEN "join" ELSE "spawn"
    /\ UNCHANGED <<op, wi, out, err, num, holders, reg, poisoned, faults>>
    /\ UNCHANGED <<chanVars, cacherVars>>

\* let mut num = counter.lock().unwrap();
SharedLock(w) ==
    /\ op = "shared_mutex_thread_example"
    /\ wpc[w] = "lock"
    /\ LockFree
    /\ IF LockResult = "ok"
         THEN /\ holders' = holders \cup {w}
              /\ wpc' = [wpc EXCEPT ![w] = "load"]
              /\ UNCHANGED strong
         ELSE \* unwrap panics on the PoisonError; unwinding drops the
              \* guard inside it and the Arc clone
              /\ wpc' = [wpc EXCEPT ![w] = "panicked"]
              /\ strong' = strong - 1
              /\ UNCHANGED holders
    /\ UNCHANGED <<op, mpc, mi, wi, out, err, num, reg, handles>>
    /\ UNCHANGED <<poisoned, faults>>
    /\ UNCHANGED <<chanVars, cacherVars>>

\* `*num += 1`: the read of the integer
SharedLoad(w) ==
    /\ op = "shared_mutex_thread_example"
    /\ wpc[w] = "load"
    /\ reg' = [reg EXCEPT ![w] = num]
    /\ wpc' = [wpc EXCEPT ![w] = "store"]
    /\ UNCHANGED <<op, mpc, mi, wi, out, err, num, holders, handles, strong>>
    /\ UNCHANGED <<poisoned, faults>>
    /\ UNCHANGED <<chanVars, cacherVars>>

\* `*num += 1`: the write of the integer
SharedStore(w) ==
    /\ op = "shared_mutex_thread_example"
    /\ wpc[w] = "store"
    /\ num' = Incremented(reg[w])
    /\ reg' = [reg EXCEPT ![w] = 0]
    /\ wpc' = [wpc EXCEPT ![w] = "drop"]
    /\ UNCHANGED <<op, mpc, mi, wi, out, err, holders, handles, strong>>
    /\ UNCHANGED <<poisoned, faults>>
    /\ UNCHANGED <<chanVars, cacherVars>>

\* the closure returns: the guard and the Arc clone are dropped
SharedFinish(w) ==
    /\ op = "shared_mutex_thread_example"
    /\ wpc[w] = "drop"
    /\ holders' = Released(w)
    /\ strong' = strong - 1
    /\ wpc' = [wpc EXCEPT ![w] = "done"]
    /\ UNCHANGED <<op, mpc, mi, wi, out, err, num, reg, handles>>
    /\ UNCHANGED <<poisoned, faults>>
    /\ UNCHANGED <<chanVars, cacherVars>>

\* one iteration of `for handle in handles { handle.join().unwrap(); }`;
\* when unwrap panics, unwinding drops the other handles and `counter`
SharedJoin ==
    /\ op = "shared_mutex_thread_example"
    /\ mpc = "join"
    /\ handles # <<>>
    /\ JoinReady(Head(handles))
    /\ mpc' = AfterJoin(Head(handles),
                        IF Tail(handles) = <<>> THEN "lock" ELSE "join")
    /\ err' = JoinErr(Head(handles))
    /\ IF mpc' = "panicked"
         THEN handles' = <<>> /\ strong' = strong - 1
         ELSE handles' = Tail(handles) /\ strong' = strong
    /\ UNCHANGED <<op, mi, wpc, wi, out, num, holders, reg>>
    /\ UNCHANGED <<poisoned, faults>>
    /\ UNCHANGED <<chanVars, cacherVars>>

\* counter.lock().unwrap() of the final println!
SharedMainLock ==
    /\ op = "shared_mutex_thread_example"
    /\ mpc = "lock"
    /\ LockFree
    /\ IF LockResult = "ok"
         THEN /\ holders' = holders \cup {0}
              /\ mpc' = "print"
              /\ UNCHANGED <<err, strong>>
         ELSE /\ mpc' = "panicked"
              /\ err' = "PoisonError"
              /\ strong' = strong - 1
              /\ UNCHANGED holders
    /\ UNCHANGED <<op, mi, wpc, wi, out, num, reg, handles>>
    /\ UNCHANGED <<poisoned, faults>>
    /\ UNCHANGED <<chanVars, cacherVars>>

\* println!("Result: {}", *guard); the temporary guard is dropped at the
\* end of the statement and the function returns, dropping `counter`
SharedMainPrint ==
    /\ op = "shared_mutex_thread_example"
    /\ mpc = "print"
    /\ out' = Append(out, <<"Result", num>>)
    /\ holders' = Released(0)
    /\ strong' = strong - 1
    /\ mpc' = "done"
    /\ UNCHANGED <<op, mi, wpc, wi, err, num, reg, handles>>
    /\ UNCHANGED <<poisoned, faults>>
    /\ UNCHANGED <<chanVars, cacherVars>>

NextShared ==
    \/ SharedSpawn
    \/ \E w \in Workers : SharedLock(w)
    \/ \E w \in Workers : SharedLoad(w)
    \/ \E w \in Workers : SharedStore(w)
    \/ \E w \in Workers : SharedFinish(w)
    \/ SharedJoin
    \/ SharedMainLock
    \/ SharedMainPrint

SpecShared == InitShared /\ [][NextShared]_vars

\* The scheduler runs every thread that can take a step.
FairShared ==
    /\ WF_vars(SharedSpawn \/ SharedJoin \/ SharedMainLock \/ SharedMainPrint)
    /\ \A w \in 1..N :
           WF_vars(SharedLock(w) \/ SharedLoad(w) \/ SharedStore(w)
                       \/ SharedFinish(w))

FairSpecShared == SpecShared /\ FairShared

\* An incrementer's closure terminates abnormally before it is over, at
\* most MaxFaults times in a run: unwinding drops its guard, which poisons
\* the mutex if it holds one, and its Arc clone.
SharedPanic(w) ==
    /\ op = "shared_mutex_thread_example"
    /\ wpc[w] \in {"lock", "load", "store", "drop"}
    /\ faults < MaxFaults
    /\ faults' = faults + 1
    /\ poisoned' = (poisoned \/ w \in holders)
    /\ holders' = Released(w)
    /\ reg' = [reg EXCEPT ![w] = 0]
    /\ strong' = strong - 1
    /\ wpc' = [wpc EXCEPT ![w] = "panicked"]
    /\ UNCHANGED <<op, mpc, mi, wi, out, err, num, handles>>
    /\ UNCHANGED <<chanVars, cacherVars>>

\* The shared counter with incrementers that may fail.
NextSharedFail ==
    \/ NextShared
    \/ \E w \in Workers : SharedPanic(w)

SpecSharedFail == InitShared /\ [][NextSharedFail]_vars


(***************************************************************************)
(* Cacher (closures.rs)                                                    *)
(***************************************************************************)
\* The closures a Cacher is built from: Fn(u32) -> u32, on the arguments
\* and results of the bounded client.
Calculations == [Args -> Args]

\* the state after Cacher::new(calculation)
InitCacher ==
    /\ op = "Cacher"
    /\ mpc = "calls"
    /\ mi = 0
    /\ wpc = [w \in Workers |-> "unspawned"]
    /\ wi = [w \in Workers |-> 0]
    /\ reg = [w \in Workers |-> 0]
    /\ out = <<>>
    /\ err = ""
    /\ calculation \in Calculations
    /\ value = <<>>
    /\ hist = <<>>
    /\ invocations = <<>>
    /\ NoChan /\ NoMutex

\* a slot that is never found set
NeverSome == FALSE

\* match self.value { Some(v) => ..., None => ... }
IsSome == value # <<>>

\* a cache keyed by its argument
Recomputed(arg) == calculation[arg]

\* Some(v) => v
StoredValue(arg) == value[1]

\* fn value(&mut self, arg: u32) -> u32
CacherValue(arg) ==
    /\ op = "Cacher"
    /\ Len(hist) < MaxCalls
    /\ IF IsSome
         THEN /\ hist' = Append(hist, [arg |-> arg, ret |-> StoredValue(arg)])
              /\ UNCHANGED <<value, invocations>>
         ELSE /\ invocations' =
                    Append(invocations, [call |-> Len(hist) + 1, arg |-> arg])
              /\ value' = <<calculation[arg]>>
              /\ hist' = Append(hist, [arg |-> arg, ret |-> calculation[arg]])
    /\ UNCHANGED <<op, mpc, mi, wpc, wi, out, err, calculation>>
    /\ UNCHANGED <<chanVars, mutexVars>>

NextCacher == \E arg \in Args : CacherValue(arg)

SpecCacher == InitCacher /\ [][NextCacher]_vars

\* What a call of value records when the calculation panics: it returns
\* no u32.
Unwinds == -1

\* `self.value = Some(0)` written before the calculation is called
SlotSetBeforeCall == <<0>>

\* The slot after (self.calculation)(arg) has panicked: the assignment
\* that follows it was not reached.
SlotAfterUnwind == value

\* fn value(&mut self, arg: u32) -> u32, when the slot is None and the
\* calculation panics: the panic unwinds through value to its caller
CacherValuePanics(arg) ==
    /\ op = "Cacher"
    /\ Len(hist) < MaxCalls
    /\ ~IsSome
    /\ invocations' =
           Append(invocations, [call |-> Len(hist) + 1, arg |-> arg])
    /\ value' = SlotAfterUnwind
    /\ hist' = Append(hist, [arg |-> arg, ret |-> Unwinds])
    /\ UNCHANGED <<op, mpc, mi, wpc, wi, out, err, calculation>>
    /\ UNCHANGED <<chanVars, mutexVars>>

\* The Cacher with a calculation that may fail.
NextCacherFail ==
    \/ NextCacher
    \/ \E arg \in Args : CacherValuePanics(arg)

SpecCacherFail == InitCacher /\ [][NextCacherFail]_vars


(***************************************************************************)
(* Claims about the fire-and-join examples.                                *)
(***************************************************************************)
\* The lines the spawned thread prints, in order.
WorkerLines == [k \in 1..(WorkerLoopTo - WorkerLoopFrom) |->
                    <<"spawned", WorkerLoopFrom + k - 1>>]

\* C7: in thread_example_two (join first), whenever a line of the main
\* thread's loop has been printed, the spawned thread has finished and all
\* of its lines come before that line: the output is the worker's lines
\* followed by main lines only.
C7_JoinFirstOrdering ==
    op = "thread_example_two" =>
        \A k \in 1..Len(out) :
            out[k][1] = "main" =>
                /\ wpc[1] = "done"
                /\ k > Len(WorkerLines)
                /\ SubSeq(out, 1, Len(WorkerLines)) = WorkerLines

C7_Witness ==
    /\ op = "thread_example_two"
    /\ mpc = "done"
    /\ Len(out) = Len(WorkerLines) + (MainLoopTo - MainLoopFrom)

\* C8: in thread_example_one (join last), once join has returned to the
\* main thread the spawned thread has finished its body: its closure has
\* returned, its loop variable is at the end of the range and every one of
\* its lines has been printed.
C8_JoinLastCompletes ==
    (op = "thread_example_one" /\ mpc = "done") =>
        /\ wpc[1] = "done"
        /\ wi[1] = WorkerLoopTo
        /\ \A k \in 1..Len(WorkerLines) :
               \E j \in 1..Len(out) : out[j] = WorkerLines[k]

\* The join returned after having waited: the worker printed its last line
\* after the main thread's loop was over.
C8_Witness ==
    /\ op = "thread_example_one"
    /\ mpc = "done"
    /\ out[Len(out)][1] = "spawned"
    /\ out[1][1] = "main"

(***************************************************************************)
(* Claims about the messaging examples.                                    *)
(***************************************************************************)
\* The values received so far, in order of receipt.
Received == [k \in 1..Len(out) |-> out[k][2]]

\* The values of a sequence.
Range(q) == {q[k] : k \in 1..Len(q)}

IsFrom(w, v) == v \in Range(Vals(op, w))

\* The subsequence of q that producer 1 (resp. 2) sent.
FromFirst(q) == SelectSeq(q, LAMBDA v : IsFrom(1, v))
FromSecond(q) == SelectSeq(q, LAMBDA v : IsFrom(2, v))

\* What producer w has sent so far.
Sent(w) == SubSeq(Vals(op, w), 1, wi[w] - 1)

\* C3: in multi_message_sending_example, in every state, the values
\* received so far followed by the values still queued, restricted to one
\* producer, are exactly what that producer has sent so far, in send order;
\* every value received comes from a producer; and when the iteration has
\* ended, the values received are, per producer, its whole sequence, and
\* their number is the number of values both producers send.
C3_MultiProducerInterleaving ==
    op = "multi_message_sending_example" =>
        /\ FromFirst(Received \o queue) = Sent(1)
        /\ FromSecond(Received \o queue) = Sent(2)
        /\ \A k \in 1..Len(Received) :
               IsFrom(1, Received[k]) \/ IsFrom(2, Received[k])
        /\ mpc = "done" =>
               /\ FromFirst(Received) = FirstVals
               /\ FromSecond(Received) = SecondVals
               /\ Len(Received) = Len(FirstVals) + Len(SecondVals)

\* The iteration has ended after a proper interleaving of the producers.
C3_Witness ==
    /\ op = "multi_message_sending_example"
    /\ mpc = "done"
    /\ Len(Received) = Len(FirstVals) + Len(SecondVals)
    /\ IsFrom(2, Received[1])
    /\ IsFrom(1, Received[2])
    /\ IsFrom(2, Received[3])

\* C4: in multi_message_sending_example the iteration has ended only in
\* states where no Sender is alive and no value is queued; the invoking
\* thread owns no Sender while it iterates; and under fair scheduling the
\* iteration eventually ends, in particular once every Sender is dropped.
C4_IterationEndsWhenSendersGone ==
    /\ [](op = "multi_message_sending_example" /\ mpc = "done"
            => txs = {} /\ queue = <<>>)
    /\ [](op = "multi_message_sending_example" /\ mpc = "iter"
            => Owned(0) = {})
    /\ (op = "multi_message_sending_example" /\ mpc = "iter" /\ txs = {})
            ~> (mpc = "done")
    /\ (op = "multi_message_sending_example") ~> (mpc = "done")

C4_Witness ==
    /\ op = "multi_message_sending_example"
    /\ mpc = "done"
    /\ \A w \in Workers : wpc[w] = "done"
    /\ txs = {}
    /\ ~rxAlive

\* C5: in message_passing_example_two the values received so far are, in
\* every state, a prefix of the producer's sequence, and when the iteration
\* has ended they are exactly that sequence, nothing is queued, and the
\* invoking thread has returned normally (it has not panicked).
C5_SingleProducerStream ==
    op = "message_passing_example_two" =>
        /\ Len(Received) <= Len(FirstVals)
        /\ Received = SubSeq(FirstVals, 1, Len(Received))
        /\ mpc # "panicked" /\ err = ""
        /\ mpc = "done" => Received = FirstVals /\ queue = <<>>

C5_Witness ==
    /\ op = "message_passing_example_two"
    /\ mpc = "done"
    /\ Received = FirstVals
    /\ wpc[1] = "done"

\* C6: in message_passing_example, whenever the invoking thread is at its
\* blocking receive and no Sender exists, the receive can complete (it does
\* not block); and when moreover nothing is queued (the producer dropped
\* its Sender without sending), the receive fails with the closed-channel
\* error (RecvError), on which unwrap panics.
C6_RecvFailsWhenClosed ==
    /\ [](op = "message_passing_example" /\ mpc = "recv" /\ txs = {}
            => ENABLED MsgRecv)
    /\ [][(op = "message_passing_example" /\ mpc = "recv" /\ txs = {}
             /\ queue = <<>> /\ mpc' # mpc)
            => (mpc' = "panicked" /\ err' = "RecvError" /\ out' = <<>>)]_vars

\* The producer dropped its Sender without sending and the receive failed.
C6_Witness ==
    /\ op = "message_passing_example"
    /\ wpc[1] = "panicked"
    /\ wi[1] = 1
    /\ mpc = "panicked"
    /\ err = "RecvError"

(***************************************************************************)
(* Claims about the shared counter.                                        *)
(***************************************************************************)
\* C1: in shared_mutex_thread_example, once every worker has been joined
\* the integer equals its initial value plus N and every worker's closure
\* has returned, and the one line the invoking thread prints reports
\* exactly that value, in every execution.
C1_FinalCountIsN ==
    op = "shared_mutex_thread_example" =>
        /\ mpc \in {"lock", "print", "done"} =>
               /\ num = InitialCount + N
               /\ \A w \in Workers : wpc[w] = "done"
        /\ mpc = "done" => out = << <<"Result", InitialCount + N>> >>
        /\ mpc # "done" => out = <<>>

C1_Witness ==
    /\ op = "shared_mutex_thread_example"
    /\ mpc = "done"
    /\ handles = <<>>
    /\ out = << <<"Result", InitialCount + N>> >>

\* The threads that are at a read or a write of the integer, or between
\* them and the release of their guard.
Accessing ==
    {w \in Workers : wpc[w] \in {"load", "store", "drop"}}
        \cup (IF mpc = "print" THEN {0} ELSE {})

\* C2: in every state of shared_mutex_thread_example at most one thread
\* holds the lock; the threads at a read or write of the integer are
\* exactly the holders of the lock; and a worker about to write finds the
\* integer as it read it (no other access came in between).
C2_MutualExclusion ==
    op = "shared_mutex_thread_example" =>
        /\ Cardinality(holders) <= 1
        /\ Accessing = holders
        /\ \A w \in Workers : wpc[w] = "store" => reg[w] = num

\* A worker is between its read and its write, holding the lock, while
\* another worker waits for the lock.
C2_Witness ==
    /\ op = "shared_mutex_thread_example"
    /\ \E w, v \in Workers :
          /\ wpc[w] = "store"
          /\ holders = {w}
          /\ wpc[v] = "lock"
          /\ num > InitialCount

C10_ComputedOnce ==
    /\ [](op = "Cacher" =>
            /\ Len(invocations) <= 1
            /\ hist = <<>> => invocations = <<>> /\ value = <<>>
            /\ hist # <<>> =>
                   /\ invocations = <<[call |-> 1, arg |-> hist[1].arg]>>
                   /\ value # <<>>)
    /\ [][op = "Cacher" /\ value # <<>> => value' = value]_vars

\* Three calls with three different arguments, one invocation.
C10_Witness ==
    /\ op = "Cacher"
    /\ Len(hist) >= 3
    /\ hist[1].arg # hist[2].arg
    /\ hist[2].arg # hist[3].arg
    /\ hist[1].arg # hist[3].arg
    /\ Len(invocations) = 1

(***************************************************************************)
(* Claims about failing workers.                                           *)
(***************************************************************************)
\* C11: in thread_example_one, thread_example_two and move_thread_example,
\* when the spawned closure has panicked the invoking function never
\* returns normally; the invoking thread panics exactly at the join of the
\* panicked worker, with the join's error; and in thread_example_two no
\* line of the main thread's loop is printed after a failed worker.
C11_JoinPropagatesFailure ==
    op \in ThreadOps =>
        /\ wpc[1] = "panicked" => mpc # "done"
        /\ mpc = "panicked" <=> err = "JoinError"
        /\ mpc = "panicked" => wpc[1] = "panicked"
        /\ (op = "thread_example_one" /\ mpc = "panicked") => mi = MainLoopTo
        /\ (op = "thread_example_two" /\ wpc[1] = "panicked") =>
               /\ mpc \in {"join", "panicked"}
               /\ mi = MainLoopFrom
               /\ \A k \in 1..Len(out) : out[k][1] = "spawned"

\* The worker of thread_example_two failed part-way and the join panicked.
C11_Witness ==
    /\ op = "thread_example_two"
    /\ wpc[1] = "panicked"
    /\ mpc = "panicked"
    /\ err = "JoinError"
    /\ Len(out) >= 1
    /\ Len(out) < Len(WorkerLines)

\* The incrementers whose closure has panicked.
Panicked == {w \in Workers : wpc[w] = "panicked"}

\* C12: in shared_mutex_thread_example the mutex is poisoned exactly when
\* a worker has failed while holding the lock; once it is poisoned no
\* thread acquires the lock any more, a worker that attempts to panics,
\* and the integer is not written again; and once a worker has panicked
\* the invoking thread never gets past the joins: it reports no result and
\* does not return normally.
C12_PoisonIsFatal ==
    /\ [](op = "shared_mutex_thread_example" =>
            /\ poisoned => Panicked # {}
            /\ Panicked # {} =>
                   /\ out = <<>>
                   /\ mpc \in {"spawn", "join", "panicked"}
            /\ mpc = "panicked" => err = "JoinError")
    /\ [][(op = "shared_mutex_thread_example" /\ poisoned) =>
            /\ poisoned'
            /\ holders' \subseteq holders
            /\ num' = num
            /\ \A w \in Workers :
                   (wpc[w] = "lock" /\ wpc'[w] # "lock") =>
                       wpc'[w] = "panicked"]_vars

\* A worker failed while holding the lock, another worker then panicked on
\* the poisoned lock, and the invoking thread aborted at a join.
C12_Witness ==
    /\ op = "shared_mutex_thread_example"
    /\ poisoned
    /\ faults = 1
    /\ Cardinality(Panicked) >= 2
    /\ mpc = "panicked"
    /\ err = "JoinError"
    /\ out = <<>>

\* The calls of value so far that ended in a panic of the calculation.
Failed(k) == hist[k].ret = Unwinds
AllFailedBefore(k) == \A j \in 1..(k - 1) : Failed(j)

\* C13: with a calculation that may panic, the slot is unset exactly as
\* long as every call so far has failed; only a call made with the slot
\* unset fails; every call made with the slot unset invokes the calculation
\* with its own argument (a call after a failure retries); and when the
\* slot is set it holds the result of the first call that did not fail.
C13_FailureLeavesSlotUnset ==
    op = "Cacher" =>
        /\ value = <<>> <=> \A k \in 1..Len(hist) : Failed(k)
        /\ \A k \in 1..Len(hist) : Failed(k) => AllFailedBefore(k)
        /\ \A k \in 1..Len(hist) :
               AllFailedBefore(k) =>
                   /\ k <= Len(invocations)
                   /\ invocations[k] = [call |-> k, arg |-> hist[k].arg]
        /\ value # <<>> =>
               \E k \in 1..Len(hist) :
                   /\ ~Failed(k)
                   /\ AllFailedBefore(k)
                   /\ value = <<calculation[hist[k].arg]>>
                   /\ hist[k].ret = calculation[hist[k].arg]
                   /\ Len(invocations) = k

\* The first call failed, the second call retried with another argument
\* and set the slot, the third call returned the stored result.
C13_Witness ==
    /\ op = "Cacher"
    /\ Len(hist) >= 3
    /\ Failed(1)
    /\ ~Failed(2)
    /\ hist[1].arg # hist[2].arg
    /\ calculation[hist[1].arg] # calculation[hist[2].arg]
    /\ Len(invocations) = 2
    /\ value = <<calculation[hist[2].arg]>>
    /\ hist[3].ret = calculation[hist[2].arg]

StreamingOps == {"message_passing_example_two", "multi_message_sending_example"}

\* C14: in the streaming examples with producers that may fail part-way, a
\* panicked producer owns no Sender; the values received and queued are,
\* per producer, exactly what it sent before failing, in send order; the
\* invoking thread never panics; when the iteration has ended every value
\* sent has been received; and under fair scheduling the iteration
\* eventually ends.
C14_FailedProducerDoesNotBlock ==
    /\ [](op \in StreamingOps =>
            /\ \A w \in Workers : wpc[w] = "panicked" => Owned(w) = {}
            /\ mpc # "panicked" /\ err = ""
            /\ FromFirst(Received \o queue) = Sent(1)
            /\ op = "multi_message_sending_example" =>
                   FromSecond(Received \o queue) = Sent(2)
            /\ mpc = "done" =>
                   /\ txs = {} /\ queue = <<>>
                   /\ FromFirst(Received) = Sent(1)
                   /\ Len(Received) =
                          Len(Sent(1)) +
                          (IF op = "multi_message_sending_example"
                             THEN Len(Sent(2)) ELSE 0))
    /\ (op \in StreamingOps) ~> (mpc = "done")

\* The first producer failed after two sends, the second sent everything,
\* and the iteration ended with the six values received.
C14_Witness ==
    /\ op = "multi_message_sending_example"
    /\ wpc[1] = "panicked"
    /\ wi[1] = 3
    /\ wpc[2] = "done"
    /\ mpc = "done"
    /\ Len(Received) = 2 + Len(SecondVals)

\* C15: in the messaging examples, when a producer's closure has
\* terminated abnormally the invoking function does not return normally.
\* (Stated as claimed; the examples drop the JoinHandle of every producer,
\* so nothing reports the failure.)
C15_NoSilentWorkerFailure ==
    (op \in MsgOps /\ Panicked # {}) => mpc # "done"

(***************************************************************************)
(* Further claims about the messaging examples.                            *)
(***************************************************************************)
\* C16: in message_passing_example the invoking thread never panics; when
\* it has returned it has printed exactly the one value the producer sent,
\* and the producer had sent it; as long as the producer has not sent, the
\* receive has not completed; and under fair scheduling the invoking
\* thread eventually returns.
C16_SingleReceiveGetsTheValue ==
    /\ [](op = "message_passing_example" =>
            /\ mpc # "panicked" /\ err = ""
            /\ mpc = "done" =>
                   out = << <<"Got", OneVals[1]>> >> /\ wi[1] = 2
            /\ wi[1] = 1 => mpc # "done" /\ out = <<>>)
    /\ (op = "message_passing_example") ~> (mpc = "done")

\* The invoking thread has returned with the value while the producer,
\* which nobody joins, has not finished yet.
C16_Witness ==
    /\ op = "message_passing_example"
    /\ mpc = "done"
    /\ out = << <<"Got", "hi">> >>
    /\ wpc[1] = "run"
    /\ ~rxAlive

(***************************************************************************)
(* Further claims about the fire-and-join examples.                        *)
(***************************************************************************)
\* C17: in thread_example_one, before the join neither thread waits for
\* the other: whenever the main thread has an iteration of its loop left,
\* that iteration can be taken whatever the worker has done, and it can
\* leave its loop for the join whether or not the worker has finished;
\* whenever the worker has an iteration left, or its return, that step can
\* be taken whatever the main thread has done.  So a worker step and a
\* main step that are both pending can occur in either order.
C17_NoOrderBeforeJoin ==
    op = "thread_example_one" =>
        /\ (mpc # "spawn" /\ mi < MainLoopTo) => ENABLED ThreadMainStep
        /\ (mpc = "loop" /\ mi = MainLoopTo) => ENABLED ThreadMainLoopEnd
        /\ (wpc[1] = "run" /\ wi[1] < WorkerLoopTo) => ENABLED ThreadWorkerStep
        /\ (wpc[1] = "run" /\ wi[1] = WorkerLoopTo) => ENABLED ThreadWorkerFinish

\* Worker and main lines have been printed in both relative orders, and
\* now the main thread can reach the join before the worker returns, or
\* the worker can return before the main thread reaches the join.
C17_Witness ==
    /\ op = "thread_example_one"
    /\ Len(out) >= 4
    /\ out[1] = <<"spawned", 1>>
    /\ out[2] = <<"main", 1>>
    /\ out[3] = <<"main", 2>>
    /\ out[4] = <<"spawned", 2>>
    /\ mpc = "loop" /\ mi = MainLoopTo
    /\ wpc[1] = "run" /\ wi[1] = WorkerLoopTo
    /\ ENABLED ThreadMainLoopEnd
    /\ ENABLED ThreadWorkerFinish

\* C18: in the three messaging examples no producer ever panics on a send:
\* as long as a producer has a value left to send the Receiver is alive;
\* the Receiver is dropped only when the invoking thread has returned, and
\* in the streaming examples only when no Sender is left.
C18_NoSendFails ==
    op \in MsgOps =>
        /\ \A w \in Workers :
               /\ wpc[w] # "panicked"
               /\ (wpc[w] \in {"unspawned", "run"} /\ wi[w] <= Len(Vals(op, w)))
                      => rxAlive /\ SendOk
        /\ ~rxAlive => mpc = "done"
        /\ (~rxAlive /\ op \in StreamingOps) => txs = {}

\* Every send of message_passing_example_two has succeeded before anything
\* was received.
C18_Witness ==
    /\ op = "message_passing_example_two"
    /\ queue = FirstVals
    /\ out = <<>>
    /\ rxAlive
    /\ wpc[1] = "run"

(***************************************************************************)
(* Further claims about the shared counter.                                *)
(***************************************************************************)
\* The workers that have completed their increment.
DoneIncrement == {w \in Workers : wpc[w] \in {"drop", "done"}}

\* C19: in every state of shared_mutex_thread_example the integer is the
\* initial value plus the number of workers that have completed their
\* increment, hence between the initial value and the initial value plus
\* N; no step decreases it; and the invoking thread is at or past its read
\* of the integer only when all N workers were spawned and every join has
\* returned.
C19_CounterCountsIncrements ==
    /\ [](op = "shared_mutex_thread_example" =>
            /\ num = InitialCount + Cardinality(DoneIncrement)
            /\ num >= InitialCount /\ num <= InitialCount + N
            /\ mpc \in {"lock", "print", "done"} =>
                   /\ mi = N
                   /\ handles = <<>>
                   /\ DoneIncrement = Workers)
    /\ [][num' >= num]_vars

\* Half of the increments are done, no join has returned yet, and a worker
\* still waits for the lock.
C19_Witness ==
    /\ op = "shared_mutex_thread_example"
    /\ num = InitialCount + 5
    /\ mpc = "join"
    /\ Len(handles) = N
    /\ wpc[1] = "lock"
    /\ \E w \in Workers : wpc[w] = "store"

\* C20: shared_mutex_thread_example never deadlocks and, under fair
\* scheduling, terminates: as long as the invoking thread has not returned
\* some thread can take a step; when the invoking thread is at its final
\* lock no thread holds the lock and it can acquire it; every worker
\* eventually returns, which does not depend on the joins; and the
\* invoking thread eventually returns.
C20_SharedCounterTerminates ==
    /\ [](op = "shared_mutex_thread_example" =>
            /\ mpc # "panicked"
            /\ mpc # "done" => ENABLED NextShared
            /\ mpc = "lock" => holders = {} /\ ENABLED SharedMainLock)
    /\ (op = "shared_mutex_thread_example")
           ~> (\A w \in Workers : wpc[w] = "done")
    /\ (op = "shared_mutex_thread_example") ~> (mpc = "done")

\* Everything has terminated and every resource is released.
C20_Witness ==
    /\ op = "shared_mutex_thread_example"
    /\ mpc = "done"
    /\ \A w \in Workers : wpc[w] = "done"
    /\ holders = {}
    /\ strong = 0
    /\ ~ENABLED NextShared

====
